---- MODULE Spec2Model ----
(***************************************************************************)
(* Model of the aiprox edge proxy (Hono app): the handlers of              *)
(* GET /ai/txt2txt and GET /ai/txt2img/:width/:height, the moderation      *)
(* gate and the registered error handler, in the three revisions of the   *)
(* app that carry an image route.                                          *)
(*                                                                         *)
(* One request is in flight at a time: the handlers share no state, so a   *)
(* request is a run from "idle" to "done".  A handler is cut at its        *)
(* awaits: the code between two awaits is one action.                      *)
(*                                                                         *)
(* Strings the code only compares or relays are TLA+ strings.  Strings     *)
(* the code parses or substitutes into (path parameters, prompts,          *)
(* templates) are sequences of symbols.                                    *)
(***************************************************************************)
EXTENDS Integers, Sequences, FiniteSets, TLC

VARIABLES
    rev,                \* the deployed revision of the app
    pc,                 \* "idle" | "moderating" | "generating" | "done"
    route,              \* "none" | "txt2txt" | "txt2img"
    query,              \* c.req.query("prompt")
    params,             \* c.req.param("width"), c.req.param("height")
    calls,              \* log of outbound calls issued and settled
    genRequest,         \* body of the generation call of this request
    modInput,           \* content handed to moderateContent
    b64,                \* const b64 of the image handler
    moderationResult,   \* const moderationResult of the handler
    genReply,           \* how the generation call settled
    modReply,           \* how the moderation call settled
    thrown,             \* the error the handler threw, if any
    response            \* the response the caller receives

vars == <<rev, pc, route, query, params, calls, genRequest, modInput, b64,
          moderationResult, genReply, modReply, thrown, response>>

----------------------------------------------------------------------------
(* Bounds *)

MaxParamLen == 4        \* symbols of a width/height path parameter
MaxPromptLen == 2       \* symbols of a prompt
MaxResults == 2         \* elements of the moderation body's results
MaxChoices == 2         \* choices of a text completion
MaxData == 2            \* elements of the image body's data

----------------------------------------------------------------------------
(* Sequences *)

RECURSIVE SeqsUpTo(_, _)
SeqsUpTo(S, n) ==
    IF n = 0 THEN {<<>>}
    ELSE LET shorter == SeqsUpTo(S, n - 1)
         IN  shorter \cup {Append(s, x) : s \in {t \in shorter : Len(t) = n - 1}, x \in S}

Tail2(s) == SubSeq(s, 3, Len(s))

----------------------------------------------------------------------------
(* Revisions.  "stream" is src/src/index.ts:219-358 (streaming text, image *)
(* cap 512, provider JSON handed back as is), "plain" is                   *)
(* src/unnamed/part_000:75-224 (cap 1400, no moderation), "moderated" is   *)
(* src/src/index.ts:1-217 (the latest).                                    *)

Revisions == {"stream", "plain", "moderated"}

\* Math.min(..., 512) / Math.min(..., 1400)
MaxDimension(r) == IF r = "stream" THEN 512 ELSE 1400

----------------------------------------------------------------------------
(* JavaScript numbers as far as the image route meets them *)

Num(n) == [kind |-> "number", val |-> n]
NaN == [kind |-> "NaN", val |-> 0]
JsonNull == [kind |-> "null", val |-> 0]

Digits == {"0", "1", "4"}
ParamChars == Digits \cup {"-", "."}

DigitValue(ch) == CASE ch = "0" -> 0 [] ch = "1" -> 1 [] ch = "4" -> 4

\* the longest prefix of s made of digits
RECURSIVE DigitPrefix(_)
DigitPrefix(s) ==
    IF s = <<>> \/ Head(s) \notin Digits THEN <<>>
    ELSE <<Head(s)>> \o DigitPrefix(Tail(s))

RECURSIVE DecimalValue(_, _)
DecimalValue(ds, acc) ==
    IF ds = <<>> THEN acc
    ELSE DecimalValue(Tail(ds), 10 * acc + DigitValue(Head(ds)))

\* parseInt(string) on strings over ParamChars: an optional "-", then the
\* decimal digits up to the first other symbol; NaN when there is no digit.
parseInt(s) ==
    LET negative == s # <<>> /\ Head(s) = "-"
        rest == IF negative THEN Tail(s) ELSE s
        ds == DigitPrefix(rest)
    IN  IF ds = <<>> THEN NaN
        ELSE Num(IF negative THEN 0 - DecimalValue(ds, 0) ELSE DecimalValue(ds, 0))

\* Math.max in the place of Math.min
MathMinAsMax(a, b) ==
    IF a.kind = "NaN" \/ b.kind = "NaN" THEN NaN
    ELSE IF a.val >= b.val THEN a ELSE b

\* Math.min(a, b): NaN when either argument is NaN
MathMin(a, b) ==
    IF a.kind = "NaN" \/ b.kind = "NaN" THEN NaN
    ELSE IF a.val <= b.val THEN a ELSE b

\* c.req.param(name) ?? 512, then parseInt: an absent parameter is the
\* number 512, which parseInt reads back as 512.
ParamOrDefault(p) == IF p.present THEN parseInt(p.value) ELSE Num(512)

\* const width = Math.min(parseInt(c.req.param("width") ?? 512), max)
Dimension(p, r) == MathMin(ParamOrDefault(p), Num(MaxDimension(r)))

\* JSON.stringify of a number field: NaN is written as null
JsonNumber(v) == IF v.kind = "NaN" THEN JsonNull ELSE v

----------------------------------------------------------------------------
(* Templates.  A template is its text before the placeholder, the          *)
(* placeholder, and its text after it; the placeholder is one symbol.      *)

Token == "{{prompt}}"

\* the two wordings of the text template; both hold the placeholder once
TXT_SYS_PROMPT(r) ==
    IF r = "stream" THEN <<"**User Prompt**: \"", Token, "\" Ensure each pair is clear ...">>
    ELSE <<"INPUT CONTEXT: \"", Token, "\" REQUIREMENTS: ... START OUTPUT NOW:">>
IMG_PROMPT == <<Token, "The main subject is centered ...">>
IMG_NEGATIVE_PROMPT == "Blurriness, distortion, ..."

\* the symbols of a prompt; Backtick and Quote are the characters ` and '
Backtick == "backtick"
Quote == "quote"
PromptChars == {"a", "$", "&", Backtick, Quote, Token}

Contains(s, x) == \E i \in 1..Len(s) : s[i] = x

\* index of the first occurrence of x in s, 0 when there is none
IndexOf(s, x) ==
    IF Contains(s, x) THEN CHOOSE i \in 1..Len(s) : s[i] = x /\ \A j \in 1..(i - 1) : s[j] # x
    ELSE 0

\* GetSubstitution for a string pattern: $$ is "$", $& the match, $` the
\* text before the match, $' the text after it; any other symbol is itself.
RECURSIVE GetSubstitution(_, _, _, _)
GetSubstitution(repl, matched, before, after) ==
    IF repl = <<>> THEN <<>>
    ELSE IF Head(repl) = "$" /\ Len(repl) >= 2 /\ repl[2] \in {"$", "&", Backtick, Quote}
         THEN (CASE repl[2] = "$" -> <<"$">>
                 [] repl[2] = "&" -> matched
                 [] repl[2] = Backtick -> before
                 [] repl[2] = Quote -> after)
              \o GetSubstitution(Tail2(repl), matched, before, after)
         ELSE <<Head(repl)>> \o GetSubstitution(Tail(repl), matched, before, after)

\* String.prototype.replace(pattern, replacement) with a string pattern:
\* the first occurrence only, the replacement expanded by GetSubstitution.
Replace(template, pattern, replacement) ==
    LET i == IndexOf(template, pattern)
        before == SubSeq(template, 1, i - 1)
        after == SubSeq(template, i + 1, Len(template))
    IN  IF i = 0 THEN template
        ELSE before \o GetSubstitution(replacement, <<pattern>>, before, after) \o after

----------------------------------------------------------------------------
(* Responses *)

TextResponse(text, status) ==
    [status |-> status, type |-> "text/plain", body |-> [text |-> text]]

JsonResponse(body) == [status |-> 200, type |-> "application/json", body |-> body]

StreamResponse(chunks) ==
    [status |-> 200, type |-> "text/event-stream", body |-> [stream |-> chunks]]

NoResponse == [status |-> 0, type |-> "none", body |-> [text |-> ""]]

FlaggedMessage == "Your input was flagged as inappropriate by our moderation system."

\* new Date().toISOString(): the clock's reading when the response is built
Now == "2024-01-01T00:00:00.000Z"

\* c.json({response: "Your input was flagged ...", created_at: new Date().toISOString()})
FlaggedResponse == JsonResponse([response |-> FlaggedMessage, created_at |-> Now])

----------------------------------------------------------------------------
(* Errors and the registered error handler *)

NoError == [kind |-> "none", status |-> 0, message |-> ""]
HTTPException(status, message) ==
    [kind |-> "HTTPException", status |-> status, message |-> message]
UncaughtError(message) == [kind |-> "Error", status |-> 0, message |-> message]

\* app.onError((err, c) => { console.error(err); return c.text("Internal Server Error", 500) })
\* The handler registered with app.onError receives every error a route
\* throws, HTTPException included, and does not look at err.
onError(err) == TextResponse("Internal Server Error", 500)

----------------------------------------------------------------------------
(* What the providers can answer *)

NoText == [fails |-> FALSE, value |-> ""]
NoBody == [valid |-> FALSE, isNull |-> FALSE, hasField |-> FALSE, items |-> <<>>]

Rejected == [settle |-> "reject", ok |-> FALSE, status |-> 0, text |-> NoText, json |-> NoBody]

NotOk(status, text) ==
    [settle |-> "resolve", ok |-> FALSE, status |-> status, text |-> text, json |-> NoBody]

Ok(json) == [settle |-> "resolve", ok |-> TRUE, status |-> 200, text |-> NoText, json |-> json]

\* a JSON body: unparseable, null, an object without the field, or an
\* object whose field is the list items
Bodies(Items) ==
    {NoBody,
     [valid |-> TRUE, isNull |-> TRUE, hasField |-> FALSE, items |-> <<>>],
     [valid |-> TRUE, isNull |-> FALSE, hasField |-> FALSE, items |-> <<>>]}
    \cup {[valid |-> TRUE, isNull |-> FALSE, hasField |-> TRUE, items |-> it] : it \in Items}

ErrorTexts == {[fails |-> TRUE, value |-> ""], [fails |-> FALSE, value |-> "quota exceeded"]}

FailureOutcomes == {Rejected} \cup {NotOk(st, t) : st \in {401, 500}, t \in ErrorTexts}

\* the moderation endpoint: results is a list of verdicts
ModerationOutcomes ==
    FailureOutcomes \cup {Ok(b) : b \in Bodies(SeqsUpTo(BOOLEAN, MaxResults))}

\* the image endpoint: data is a list of objects that may carry b64_json
ImageItems ==
    {[has |-> FALSE, b64_json |-> ""], [has |-> TRUE, b64_json |-> ""],
     [has |-> TRUE, b64_json |-> "xyz"], [has |-> TRUE, b64_json |-> "uvw"]}

ImageOutcomes == FailureOutcomes \cup {Ok(b) : b \in Bodies(SeqsUpTo(ImageItems, MaxData))}

\* the completions client: it throws, or resolves with choices and created
CompletionOutcomes ==
    {[settle |-> "reject", choices |-> <<>>, created |-> "0"]}
    \cup {[settle |-> "resolve", choices |-> ch, created |-> "1700000000"] :
            ch \in SeqsUpTo({"A", "B"}, MaxChoices)}

StatusText(n) == CASE n = 401 -> "401" [] n = 500 -> "500" [] OTHER -> "0"

----------------------------------------------------------------------------
(* moderateContent *)

UnknownModerationError == [flagged |-> FALSE, error |-> "Unknown moderation error"]

\* results.every in the place of results.some
SomeFlaggedAsEvery(json) == json.hasField /\ \A i \in 1..Len(json.items) : json.items[i]

\* result.results?.some((r) => r.flagged) || false
SomeFlagged(json) == json.hasField /\ \E i \in 1..Len(json.items) : json.items[i]

\* moderateContent failing closed: flagged: true in the catch block
moderateContentFailClosed(o) ==
    IF o.settle = "reject" THEN [flagged |-> TRUE, error |-> "Unknown moderation error"]
    ELSE IF ~o.ok
         THEN IF o.text.fails THEN [flagged |-> TRUE, error |-> "Unknown moderation error"]
              ELSE [flagged |-> FALSE,
                    error |-> "Moderation API error " \o StatusText(o.status)
                              \o ": " \o o.text.value]
    ELSE IF ~o.json.valid \/ o.json.isNull
         THEN [flagged |-> TRUE, error |-> "Unknown moderation error"]
    ELSE [flagged |-> SomeFlagged(o.json), error |-> ""]

\* The verdict moderateContent returns once its fetch has settled as o.
\* error is "" when the returned object carries no error.
moderateContent(o) ==
    IF o.settle = "reject" THEN UnknownModerationError
    ELSE IF ~o.ok
         THEN IF o.text.fails THEN UnknownModerationError
              ELSE [flagged |-> FALSE,
                    error |-> "Moderation API error " \o StatusText(o.status)
                              \o ": " \o o.text.value]
    ELSE IF ~o.json.valid \/ o.json.isNull THEN UnknownModerationError
    ELSE [flagged |-> SomeFlagged(o.json), error |-> ""]

----------------------------------------------------------------------------
(* The requests *)

Absent == [present |-> FALSE, value |-> <<>>]
Given(s) == [present |-> TRUE, value |-> s]

\* prompt === undefined in the place of !prompt: the empty string passes
MissingAsUndefined(q) == ~q.present

\* !prompt: the query parameter is undefined or the empty string
Missing(q) == ~q.present \/ q.value = <<>>

\* the prompt query parameter: absent, empty, or a string over PromptChars
Queries == {Absent} \cup {Given(s) : s \in SeqsUpTo(PromptChars, MaxPromptLen)}

\* the prompts that do not hold the placeholder themselves
PatternQueries == {q \in Queries : ~Contains(q.value, Token)}

\* a path parameter of a matched route is a non-empty string
PathParams == {Given(s) : s \in SeqsUpTo(ParamChars, MaxParamLen) \ {<<>>}}

NoParams == [width |-> Absent, height |-> Absent]

\* path parameters used where the prompt is what varies
SomeParams ==
    {[width |-> Given(<<"4", "0", "0">>), height |-> Given(<<"4", "0", "0">>)],
     [width |-> Given(<<"4", "0", "0", "0">>), height |-> Given(<<".">>)]}

\* every path parameter, in either position
AllParams ==
    {[width |-> p, height |-> Given(<<"4", "0", "0">>)] : p \in PathParams}
    \cup {[width |-> Given(<<"4", "0", "0">>), height |-> p] : p \in PathParams}

----------------------------------------------------------------------------
(* The bodies of the outbound calls *)

NoRequest == [model |-> "none"]
NoInput == [type |-> "none"]
NoVerdict == [flagged |-> FALSE, error |-> ""]
NoReply == [settle |-> "none", ok |-> FALSE, status |-> 0, text |-> NoText, json |-> NoBody]

Issue(to) == [ev |-> "issue", to |-> to]
Settle(to) == [ev |-> "settle", to |-> to]

\* nebius.completions.create({prompt: TXT_SYS_PROMPT.replace("{{prompt}}", prompt), ...})
CompletionRequest(r, prompt) ==
    [model |-> CASE r = "stream" -> "meta-llama/Meta-Llama-3.1-8B-Instruct"
                 [] r = "plain" -> "Qwen/Qwen2.5-Coder-32B-Instruct"
                 [] OTHER -> "meta-llama/Llama-3.3-70B-Instruct",
     prompt |-> Replace(TXT_SYS_PROMPT(r), Token, prompt),
     stream |-> (r = "stream")]

\* body: JSON.stringify({model, prompt, width, height, seed, negative_prompt, ...})
ImageRequest(r, prompt, p) ==
    [model |-> IF r = "stream" THEN "stability-ai/sdxl" ELSE "black-forest-labs/flux-schnell",
     prompt |-> IF r = "stream" THEN prompt ELSE Replace(IMG_PROMPT, Token, prompt),
     width |-> JsonNumber(Dimension(p.width, r)),
     height |-> JsonNumber(Dimension(p.height, r)),
     negative_prompt |-> IF r = "stream" THEN "" ELSE IMG_NEGATIVE_PROMPT]

\* the payload of the first element that carries one, in the place of data[0]
FirstPayloadOfAny(json) ==
    IF json.hasField /\ \E i \in 1..Len(json.items) : json.items[i].b64_json # ""
    THEN LET i == CHOOSE i \in 1..Len(json.items) :
                      /\ json.items[i].b64_json # ""
                      /\ \A j \in 1..(i - 1) : json.items[j].b64_json = ""
         IN  json.items[i].b64_json
    ELSE ""

\* parsed.data?.[0]?.b64_json, "" standing for undefined as well: the
\* handlers only test it for truth before using it
FirstPayload(json) ==
    IF json.hasField /\ Len(json.items) >= 1 /\ json.items[1].has
    THEN json.items[1].b64_json
    ELSE ""

\* [{type: "image_url", image_url: {url: `data:image/jpeg;base64,${b64}`}}]
ImageInput(payload) == [type |-> "image_url", content |-> "data:image/jpeg;base64," \o payload]
TextInput(prompt) == [type |-> "text", content |-> prompt]

\* response.choices.map((c) => c.text).join("")
RECURSIVE Join(_)
Join(choices) == IF choices = <<>> THEN "" ELSE Head(choices) \o Join(Tail(choices))

----------------------------------------------------------------------------
(* The state machine *)

Init ==
    /\ rev \in Revisions
    /\ pc = "idle"
    /\ route = "none"
    /\ query = Absent
    /\ params = NoParams
    /\ calls = <<>>
    /\ genRequest = NoRequest
    /\ modInput = NoInput
    /\ b64 = ""
    /\ moderationResult = NoVerdict
    /\ genReply = NoReply
    /\ modReply = NoReply
    /\ thrown = NoError
    /\ response = NoResponse

\* the handler returns r
Return(r) ==
    /\ response' = r
    /\ thrown' = NoError
    /\ pc' = "done"

\* the handler throws err: Hono hands it to the registered error handler
Throw(err) ==
    /\ thrown' = err
    /\ response' = onError(err)
    /\ pc' = "done"

\* await moderateContent(content, key): the fetch is issued
CallModeration(content, log) ==
    /\ modInput' = content
    /\ calls' = Append(log, Issue("moderation"))
    /\ pc' = "moderating"
    /\ UNCHANGED <<thrown, response>>

\* await nebius.completions.create(...) / await fetch(".../images/generations")
CallGeneration(body, to, log) ==
    /\ genRequest' = body
    /\ calls' = Append(log, Issue(to))
    /\ pc' = "generating"
    /\ UNCHANGED <<thrown, response>>

\* GET /ai/txt2txt up to its first await
Txt2Txt(q) ==
    /\ pc = "idle"
    /\ route' = "txt2txt"
    /\ query' = q
    /\ params' = NoParams
    /\ UNCHANGED <<rev, b64, moderationResult, genReply, modReply>>
    /\ IF Missing(q)
       THEN /\ Throw(HTTPException(400, "Missing prompt"))
            /\ UNCHANGED <<calls, genRequest, modInput>>
       ELSE IF rev = "moderated"
       THEN /\ CallModeration(TextInput(q.value), calls)
            /\ UNCHANGED genRequest
       ELSE /\ CallGeneration(CompletionRequest(rev, q.value), "completions", calls)
            /\ UNCHANGED modInput

\* GET /ai/txt2img/:width/:height up to its first await
Txt2Img(p, q) ==
    /\ pc = "idle"
    /\ route' = "txt2img"
    /\ query' = q
    /\ params' = p
    /\ UNCHANGED <<rev, b64, moderationResult, genReply, modReply, modInput>>
    /\ IF Missing(q)
       THEN /\ Throw(HTTPException(400, "Missing prompt"))
            /\ UNCHANGED <<calls, genRequest>>
       ELSE CallGeneration(ImageRequest(rev, q.value, p), "images", calls)

\* the moderation fetch settles as o: the rest of moderateContent, then the
\* handler from "if (moderationResult.error)" to its next await or its end
ModerationSettles(o) ==
    /\ pc = "moderating"
    /\ modReply' = o
    /\ moderationResult' = moderateContent(o)
    /\ UNCHANGED <<rev, route, query, params, b64, genReply, modInput>>
    /\ LET log == Append(calls, Settle("moderation"))
       IN  IF moderateContent(o).flagged
           THEN /\ Return(FlaggedResponse)
                /\ calls' = log
                /\ UNCHANGED genRequest
           ELSE IF route = "txt2txt"
           THEN CallGeneration(CompletionRequest(rev, query.value), "completions", log)
           ELSE /\ Return(JsonResponse([data |-> b64]))
                /\ calls' = log
                /\ UNCHANGED genRequest

\* the completions call settles as o: the text handler to its end
CompletionSettles(o) ==
    /\ pc = "generating"
    /\ route = "txt2txt"
    /\ genReply' = o
    /\ calls' = Append(calls, Settle("completions"))
    /\ UNCHANGED <<rev, route, query, params, b64, moderationResult, modReply,
                   modInput, genRequest>>
    /\ IF o.settle = "reject" THEN Throw(UncaughtError("completions.create rejected"))
       ELSE IF rev = "stream" THEN Return(StreamResponse(o.choices))
       ELSE Return(JsonResponse([response |-> Join(o.choices), created_at |-> o.created]))

\* the image handler after a success status, in the revision that hands
\* the provider's JSON back: return response.json().  The parsed object is
\* what the handler returns; a body that does not parse rejects the
\* returned promise, which is a throw of the handler.
ImagePassthrough(o) ==
    /\ UNCHANGED <<b64, modInput>>
    /\ calls' = Append(calls, Settle("images"))
    /\ IF ~o.json.valid THEN Throw(UncaughtError("response.json() rejected"))
       ELSE Return(JsonResponse([raw |-> o.json]))

\* the image handler after a success status, without moderation:
\* parsed.data?.[0]?.b64_json ? c.json({data: ...}) : c.text("No data", 404)
ImagePlain(o) ==
    /\ calls' = Append(calls, Settle("images"))
    /\ UNCHANGED modInput
    /\ IF ~o.json.valid
       THEN Throw(UncaughtError("response.json() rejected")) /\ UNCHANGED b64
       ELSE IF o.json.isNull
       THEN Throw(UncaughtError("TypeError: parsed is null")) /\ UNCHANGED b64
       ELSE /\ b64' = FirstPayload(o.json)
            /\ IF FirstPayload(o.json) # ""
               THEN Return(JsonResponse([data |-> FirstPayload(o.json)]))
               ELSE Return(TextResponse("No data", 404))

\* the image handler after a success status, with moderation: the payload
\* is extracted, its absence thrown as HTTPException(404), and the image
\* handed to moderateContent
ImageModerated(o) ==
    IF ~o.json.valid
    THEN /\ Throw(UncaughtError("response.json() rejected"))
         /\ calls' = Append(calls, Settle("images"))
         /\ UNCHANGED <<b64, modInput>>
    ELSE IF o.json.isNull
    THEN /\ Throw(UncaughtError("TypeError: parsed is null"))
         /\ calls' = Append(calls, Settle("images"))
         /\ UNCHANGED <<b64, modInput>>
    ELSE /\ b64' = FirstPayload(o.json)
         /\ IF FirstPayload(o.json) = ""
            THEN /\ Throw(HTTPException(404, "No data"))
                 /\ calls' = Append(calls, Settle("images"))
                 /\ UNCHANGED modInput
            ELSE CallModeration(ImageInput(FirstPayload(o.json)),
                                Append(calls, Settle("images")))

\* the image fetch settles as o: the image handler from "if (!response.ok)"
\* to its next await or its end
ImagesSettles(o) ==
    /\ pc = "generating"
    /\ route = "txt2img"
    /\ genReply' = o
    /\ UNCHANGED <<rev, route, query, params, moderationResult, modReply, genRequest>>
    /\ IF o.settle = "reject"
       THEN /\ Throw(UncaughtError("fetch rejected"))
            /\ calls' = Append(calls, Settle("images"))
            /\ UNCHANGED <<b64, modInput>>
       ELSE IF ~o.ok
       THEN /\ IF o.text.fails THEN Throw(UncaughtError("response.text() rejected"))
               ELSE Throw(HTTPException(400, o.text.value))
            /\ calls' = Append(calls, Settle("images"))
            /\ UNCHANGED <<b64, modInput>>
       ELSE CASE rev = "stream" -> ImagePassthrough(o)
              [] rev = "plain" -> ImagePlain(o)
              [] OTHER -> ImageModerated(o)

\* the response is sent; the worker takes the next request with nothing
\* kept from this one
NextRequest ==
    /\ pc = "done"
    /\ pc' = "idle"
    /\ route' = "none"
    /\ query' = Absent
    /\ params' = NoParams
    /\ calls' = <<>>
    /\ genRequest' = NoRequest
    /\ modInput' = NoInput
    /\ b64' = ""
    /\ moderationResult' = NoVerdict
    /\ genReply' = NoReply
    /\ modReply' = NoReply
    /\ thrown' = NoError
    /\ response' = NoResponse
    /\ UNCHANGED rev

Next ==
    \/ \E q \in Queries : Txt2Txt(q)
    \/ \E p \in SomeParams, q \in Queries : Txt2Img(p, q)
    \/ \E o \in ModerationOutcomes : ModerationSettles(o)
    \/ \E o \in CompletionOutcomes : CompletionSettles(o)
    \/ \E o \in ImageOutcomes : ImagesSettles(o)
    \/ NextRequest

Spec == Init /\ [][Next]_vars

\* the image route over every path parameter, the prompt fixed; the
\* provider's answers are those that need no second call
NextDims ==
    \/ \E p \in AllParams : Txt2Img(p, Given(<<"a">>))
    \/ \E o \in FailureOutcomes : ImagesSettles(o)
    \/ NextRequest

SpecDims == Init /\ [][NextDims]_vars

\* both routes over the prompts that do not hold the placeholder
NextPatterns ==
    \/ \E q \in PatternQueries : Txt2Txt(q)
    \/ \E p \in SomeParams, q \in PatternQueries : Txt2Img(p, q)
    \/ \E o \in ModerationOutcomes : ModerationSettles(o)
    \/ \E o \in CompletionOutcomes : CompletionSettles(o)
    \/ \E o \in ImageOutcomes : ImagesSettles(o)
    \/ NextRequest

SpecPatterns == Init /\ [][NextPatterns]_vars

----------------------------------------------------------------------------
(* State predicates the properties are written with *)

Issued(to) == \E i \in 1..Len(calls) : calls[i] = Issue(to)
Settled(to) == \E i \in 1..Len(calls) : calls[i] = Settle(to)

\* the generic answer of the error handler
GenericError == TextResponse("Internal Server Error", 500)

\* the moderation call threw, answered a non-success status, or answered a
\* body that does not parse
ModerationFailed ==
    /\ modReply.settle # "none"
    /\ \/ modReply.settle = "reject"
       \/ ~modReply.ok
       \/ ~modReply.json.valid

\* the moderation call answered a body whose results hold a flagged element
ModerationFlags ==
    /\ modReply.settle = "resolve"
    /\ modReply.ok
    /\ modReply.json.valid
    /\ modReply.json.hasField
    /\ \E i \in 1..Len(modReply.json.items) : modReply.json.items[i] = TRUE

\* the image call answered a success status and a body that parsed to an object
ImageParsed ==
    /\ route = "txt2img"
    /\ genReply.settle = "resolve"
    /\ genReply.ok
    /\ genReply.json.valid
    /\ ~genReply.json.isNull

\* data[0].b64_json of the image call's answer is there and not empty
PayloadPresent ==
    /\ ImageParsed
    /\ genReply.json.hasField
    /\ Len(genReply.json.items) >= 1
    /\ genReply.json.items[1].has
    /\ genReply.json.items[1].b64_json # ""

----------------------------------------------------------------------------
\* C1: every request to either route whose prompt is absent or empty is
\* answered with HTTP 400 and the body "Missing prompt".
C1_MissingPromptIs400 ==
    (pc = "done" /\ Missing(query)) => response = TextResponse("Missing prompt", 400)

----------------------------------------------------------------------------
\* C2: moderation fails open.  Once the moderation call has thrown, answered
\* a non-success status or an unparseable body, the verdict is flagged=false
\* with an error string, and the route goes on as for an unflagged verdict:
\* the image route answers {data: b64}; the text route issues the
\* completion call and answers with its text (or, when that call itself
\* throws, with what a throwing completion call always gives).  The flagged
\* message is never the answer.
C2_ModerationFailsOpen ==
    ModerationFailed =>
        /\ moderationResult.flagged = FALSE
        /\ moderationResult.error # ""
        /\ response # FlaggedResponse
        /\ route = "txt2img" =>
              /\ pc = "done"
              /\ thrown = NoError
              /\ response = JsonResponse([data |-> genReply.json.items[1].b64_json])
        /\ route = "txt2txt" =>
              /\ Issued("completions")
              /\ pc \in {"generating", "done"}
              /\ pc = "done" =>
                    response = IF genReply.settle = "reject" THEN GenericError
                               ELSE JsonResponse([response |-> Join(genReply.choices),
                                                  created_at |-> genReply.created])

\* the moderation of an image threw and the image was returned all the same
C2_Witness ==
    /\ route = "txt2img"
    /\ modReply.settle = "reject"
    /\ pc = "done"
    /\ response = JsonResponse([data |-> "xyz"])

----------------------------------------------------------------------------
\* C3: when the moderation body holds a flagged element, the request ends
\* with the fixed flagged message and a timestamp, on both routes; the
\* answer is never the generated text or the image payload, and on the
\* text route no completion call is issued.
C3_FlaggedShortCircuits ==
    ModerationFlags =>
        /\ pc = "done"
        /\ response.status = 200
        /\ response.body = [response |-> FlaggedMessage, created_at |-> Now]
        /\ route = "txt2txt" => (~Issued("completions") /\ genRequest = NoRequest)

\* a prompt was flagged by the second of two results
C3_Witness ==
    /\ route = "txt2txt"
    /\ modReply.settle = "resolve"
    /\ modReply.json.items = <<FALSE, TRUE>>
    /\ response = FlaggedResponse

----------------------------------------------------------------------------
\* C4: the order of the two outbound calls of one request.  On the text
\* route of the moderated revision the moderation call, made on the raw
\* prompt, has settled before a completion call is issued.  On the image
\* route a moderation call is issued only after the image call has
\* answered a success status with a non-empty first payload, and it
\* moderates that image; an image call that failed or answered no payload
\* ends the request with no moderation call.
C4_CallOrder ==
    /\ (rev = "moderated" /\ route = "txt2txt") =>
          /\ \A i \in 1..Len(calls) :
                calls[i] = Issue("completions") =>
                    \E j \in 1..(i - 1) : calls[j] = Settle("moderation")
          /\ Issued("moderation") => modInput = TextInput(query.value)
    /\ route = "txt2img" =>
          /\ \A i \in 1..Len(calls) :
                calls[i] = Issue("moderation") =>
                    /\ \E j \in 1..(i - 1) : calls[j] = Settle("images")
                    /\ PayloadPresent
                    /\ modInput = ImageInput(genReply.json.items[1].b64_json)
          /\ (Settled("images") /\ ~PayloadPresent) =>
                (pc = "done" /\ ~Issued("moderation"))

\* an image was obtained and its moderation is under way
C4_Witness ==
    /\ route = "txt2img"
    /\ pc = "moderating"
    /\ calls = <<Issue("images"), Settle("images"), Issue("moderation")>>
    /\ modInput = ImageInput("xyz")

----------------------------------------------------------------------------
\* C5: a width or height that parses to an integer above the revision's
\* maximum (512 in the streaming revision, 1400 in the later ones) is
\* forwarded as the maximum; one at or below it, zero and negatives
\* included, is forwarded unchanged; no forwarded integer exceeds the
\* maximum; clamping a clamped value changes nothing.
C5_Clamp(name) ==
    LET requested == parseInt(params[name].value)
        max == IF rev = "stream" THEN 512 ELSE 1400
        forwarded == genRequest[name]
    IN  requested.kind = "number" =>
            /\ forwarded.kind = "number"
            /\ forwarded.val <= max
            /\ requested.val > max => forwarded.val = max
            /\ requested.val <= max => forwarded.val = requested.val
            /\ MathMin(forwarded, Num(max)) = forwarded

C5_UpperClamp ==
    (route = "txt2img" /\ Issued("images")) => (C5_Clamp("width") /\ C5_Clamp("height"))

\* 4000 was asked for and 1400 forwarded
C5_Witness ==
    /\ rev = "moderated"
    /\ Issued("images")
    /\ params.width = Given(<<"4", "0", "0", "0">>)
    /\ genRequest.width = Num(1400)

----------------------------------------------------------------------------
\* C6: a width or height that is absent or does not parse as an integer is
\* taken as 512, so 512 is what the image provider is sent.
C6_UnparseableIs512 ==
    (route = "txt2img" /\ Issued("images")) =>
        \A name \in {"width", "height"} :
            (~params[name].present \/ parseInt(params[name].value).kind = "NaN")
                => genRequest[name] = Num(512)

----------------------------------------------------------------------------
\* C7: when the image provider answers a non-success status, the caller
\* gets HTTP 400 with the provider's body as it came, and the request is
\* over: no second image call, no moderation call.
C7_UpstreamErrorIs400 ==
    (route = "txt2img" /\ genReply.settle = "resolve" /\ ~genReply.ok /\ ~genReply.text.fails) =>
        /\ pc = "done"
        /\ response = TextResponse(genReply.text.value, 400)
        /\ calls = <<Issue("images"), Settle("images")>>

----------------------------------------------------------------------------
\* C8: in the latest revision, on a success answer of the image provider,
\* a present first payload that moderation does not flag is returned as
\* {data: payload}, and an absent one is answered with HTTP 404 "No data".
C8_PayloadOrNoData ==
    (rev = "moderated" /\ ImageParsed /\ pc = "done") =>
        /\ (PayloadPresent /\ ~moderationResult.flagged) =>
              response = JsonResponse([data |-> genReply.json.items[1].b64_json])
        /\ ~PayloadPresent => response = TextResponse("No data", 404)

----------------------------------------------------------------------------
\* C9: for every non-empty prompt the prompt sent to the provider is the
\* template's text before the placeholder, the prompt, and the text after
\* it, and the placeholder does not occur in it.
C9_Template ==
    LET template == IF route = "txt2txt" THEN TXT_SYS_PROMPT(rev) ELSE IMG_PROMPT
        i == IndexOf(template, Token)
    IN  (/\ \/ route = "txt2txt" /\ Issued("completions")
            \/ route = "txt2img" /\ Issued("images") /\ rev # "stream")
        => /\ genRequest.prompt = SubSeq(template, 1, i - 1) \o query.value
                                      \o SubSeq(template, i + 1, Len(template))
           /\ ~Contains(genRequest.prompt, Token)

----------------------------------------------------------------------------
\* C10: the generic HTTP 500 "Internal Server Error" answers uncaught
\* failures only; an error thrown with a status of its own (missing prompt
\* 400, upstream rejection 400, missing payload 404) is answered with that
\* status and its message.
C10_GenericOnlyForUncaught ==
    pc = "done" =>
        /\ response = GenericError => thrown.kind = "Error"
        /\ thrown.kind = "Error" => response = GenericError
        /\ thrown.kind = "HTTPException" =>
              response = TextResponse(thrown.message, thrown.status)

----------------------------------------------------------------------------
\* the number of calls to one of the providers in tos that the first n
\* entries of the call log issue (ev = "issue") or settle (ev = "settle")
CountIn(n, ev, tos) ==
    Cardinality({i \in 1..n : calls[i].ev = ev /\ calls[i].to \in tos})

InferenceProvider == {"completions", "images"}
ModerationProvider == {"moderation"}
Providers == InferenceProvider \cup ModerationProvider

\* C11: whatever the providers answer (success, non-success status, thrown
\* error), one request issues at most one call to the inference provider
\* and at most one to the moderation provider; at no point of the request
\* are two calls outstanding; a call that has settled, failure included, is
\* not issued again; and a request whose prompt is absent or empty issues
\* no call at all.
C11_OneCallEach ==
    /\ CountIn(Len(calls), "issue", InferenceProvider) <= 1
    /\ CountIn(Len(calls), "issue", ModerationProvider) <= 1
    /\ \A n \in 0..Len(calls) :
          /\ CountIn(n, "issue", Providers) - CountIn(n, "settle", Providers) \in {0, 1}
          /\ \A to \in Providers :
                CountIn(n, "settle", {to}) <= CountIn(n, "issue", {to})
    /\ \A i \in 1..Len(calls), j \in 1..Len(calls) :
          (i < j /\ calls[i].ev = "settle") => calls[j] # Issue(calls[i].to)
    /\ (route # "none" /\ (~query.present \/ Len(query.value) = 0)) =>
          (calls = <<>> /\ pc = "done")

\* an image was generated and its moderation threw: two calls, one after
\* the other, and none after the failure
C11_Witness ==
    /\ route = "txt2img"
    /\ pc = "done"
    /\ modReply.settle = "reject"
    /\ calls = <<Issue("images"), Settle("images"),
                 Issue("moderation"), Settle("moderation")>>

====
